---- MODULE Spec2Model ----
(***************************************************************************)
(* Payroll Summary Generator (src/app.py): a Streamlit script that is run  *)
(* from top to bottom on every interaction of one session.  The model has  *)
(* one action per interaction (login submission, file upload, sheet and    *)
(* department selection, the Generate Invoice button); each action is the  *)
(* whole script run that the interaction triggers.                         *)
(*                                                                         *)
(* Text (headers, department names, cell text, formatted amounts) is a     *)
(* sequence of one-character strings; characters written as tokens are     *)
(* "HALF" (the one-half sign of "OT Amt 1 1/2"), "LSQUO" and "RSQUO" (the  *)
(* typographic quotes), "BTICK" (the back-tick) and "CJK" (a character     *)
(* outside Latin-1).  Money is an integer number of cents, which leaves    *)
(* out the rounding of binary floating point in sums; the products with    *)
(* the rates 0.15 and 0.08 are exact, in 1/100 of a cent.  The PDF library *)
(* is taken to be PyFPDF 1.x, whose output is text that the handler        *)
(* encodes as Latin-1.                                                     *)
(***************************************************************************)
EXTENDS Integers, Sequences, FiniteSets, TLC

VARIABLES logged_in, login_attempt, uploaded_file, sheet, stage, cost_col,
          depts, sel_dept, df, invoice, messages

vars == <<logged_in, login_attempt, uploaded_file, sheet, stage, cost_col,
          depts, sel_dept, df, invoice, messages>>

(***************************************************************************)
(* Bounds of the input families.                                           *)
(***************************************************************************)
MaxRows == 2
MaxOptCols == 2
MaxAliasCols == 2

(***************************************************************************)
(* Characters.                                                             *)
(***************************************************************************)
UpperAlpha == <<"A","B","C","D","E","F","G","H","I","J","K","L","M",
                "N","O","P","Q","R","S","T","U","V","W","X","Y","Z">>

LowerAlpha == <<"a","b","c","d","e","f","g","h","i","j","k","l","m",
                "n","o","p","q","r","s","t","u","v","w","x","y","z">>

DigitChars == <<"0","1","2","3","4","5","6","7","8","9">>

Range(f) == {f[i] : i \in DOMAIN f}

LowerLetters == Range(LowerAlpha)

UpperLetters == Range(UpperAlpha)

Digits == Range(DigitChars)

IsLowerAz(c) == c \in LowerLetters

IsUpperAz(c) == c \in UpperLetters

IsDigit(c) == c \in Digits

AlphaIndex(c) == CHOOSE i \in 1..26 : UpperAlpha[i] = c \/ LowerAlpha[i] = c

\* str.lower(), one character
LowerChar(c) == IF IsUpperAz(c) THEN LowerAlpha[AlphaIndex(c)] ELSE c

lower(s) == [i \in 1..Len(s) |-> LowerChar(s[i])]

\* str.replace(ch, ""), one character deleted everywhere
RemoveChar(s, ch) == SelectSeq(s, LAMBDA c : c # ch)

RECURSIVE lstrip(_)
lstrip(s) == IF s # <<>> /\ Head(s) = " " THEN lstrip(Tail(s)) ELSE s

RECURSIVE rstrip(_)
rstrip(s) ==
    IF s # <<>> /\ s[Len(s)] = " " THEN rstrip(SubSeq(s, 1, Len(s) - 1)) ELSE s

strip(s) == rstrip(lstrip(s))

\* re.sub(r"[^a-z]", "", x.lower())
NormNoLower(s) == SelectSeq(s, IsLowerAz)

Norm(s) == SelectSeq(lower(s), IsLowerAz)

\* characters the latin-1 codec cannot encode
IsLatin1(s) == \A i \in 1..Len(s) : s[i] \notin {"CJK", "LSQUO", "RSQUO"}

(***************************************************************************)
(* Cells.  A cell of the sheet is empty (NaN), a number or text; after     *)
(* pd.to_datetime a cell is a date (n = yyyymmdd) or NaT, written NaN.     *)
(***************************************************************************)
NaN == [t |-> "nan", n |-> 0, s |-> <<>>]

Num(v) == [t |-> "num", n |-> v, s |-> <<>>]

Str(x) == [t |-> "str", n |-> 0, s |-> x]

Date(d) == [t |-> "date", n |-> d, s |-> <<>>]

isna(c) == c.t = "nan"

DigitVal(c) == (CHOOSE i \in 1..10 : DigitChars[i] = c) - 1

\* the ISO form yyyy-mm-dd, the one text form of a date the model knows
ParseDate(s) ==
    IF /\ Len(s) = 10
       /\ s[5] = "-" /\ s[8] = "-"
       /\ \A i \in {1, 2, 3, 4, 6, 7, 9, 10} : IsDigit(s[i])
    THEN LET y == 1000 * DigitVal(s[1]) + 100 * DigitVal(s[2])
                  + 10 * DigitVal(s[3]) + DigitVal(s[4])
             m == 10 * DigitVal(s[6]) + DigitVal(s[7])
             d == 10 * DigitVal(s[9]) + DigitVal(s[10])
         IN  IF m \in 1..12 /\ d \in 1..31
             THEN Date(10000 * y + 100 * m + d)
             ELSE NaN
    ELSE NaN

\* pd.to_datetime(x, errors="coerce"), one cell
to_datetime(c) ==
    CASE c.t = "nan"  -> NaN
      [] c.t = "date" -> c
      [] c.t = "num"  -> Date(19700101)
      [] OTHER        -> ParseDate(c.s)

\* pd.to_numeric(x, errors="coerce") followed by fillna(0), one cell
to_numeric(c) == IF c.t = "num" THEN Num(c.n) ELSE Num(0)

(***************************************************************************)
(* Header texts.                                                           *)
(***************************************************************************)
H_No == <<"N","o",".">>

H_Name == <<"N","a","m","e">>

H_EmpNo == <<"E","m","p"," ","N","o">>

H_Joined == <<"J","o","i","n","e","d">>

H_Resign == <<"R","e","s","i","g","n">>

H_MBasic == <<"M","/","B","a","s","i","c">>

H_OT == <<"O","T"," ","A","m","t"," ","1","HALF">>

H_MEC == <<"M","E","C">>

H_ALL == <<"A","L","L">>

H_OVT == <<"O","V","T">>

H_MS == <<"M","S">>

H_NS == <<"N","S">>

H_ICP == <<"I","C","P">>

H_BAC == <<"B","A","C">>

H_BSC == <<"B","S","C">>

H_BBB == <<"B","B","B">>

H_BAL == <<"B","A","L">>

H_BOT == <<"B","O","T">>

H_CSN == <<"C","S","N">>

H_EPF == <<"E","P","F">>

H_Socso == <<"S","o","c","s","o">>

H_EIS == <<"E","I","S">>

H_PCB == <<"P","C","B">>

H_HRDF == <<"H","R","D","F">>

H_EPFEE == <<"E","P","F","E","E">>

H_SocEE == <<"S","o","c","E","E">>

H_EISEE == <<"E","I","S","E","E">>

H_GrossPay == <<"G","r","o","s","s"," ","P","a","y">>

H_TotalDeduction == <<"T","o","t","a","l"," ","D","e","d","u","c","t","i","o","n">>

H_NetPay == <<"N","e","t"," ","P","a","y">>

H_CCenter == <<"C","/","C","e","n","t","e","r">>

H_CostCenter == <<"C","o","s","t"," ","C","e","n","t","e","r">>

H_Center == <<"C","e","n","t","e","r">>

H_C_Center == <<"C"," ","C","e","n","t","e","r">>

H_CDashCenter == <<"C","-","C","e","n","t","e","r">>

H_EPF_ER == <<"E","P","F"," ","E","R">>

H_EPFqER == <<"E","P","F","'","E","R">>

H_EPFER == <<"E","P","F","E","R">>

H_EIS_ER == <<"E","I","S"," ","E","R">>

H_EISqER == <<"E","I","S","'","E","R">>

H_EISER == <<"E","I","S","E","R">>

H_Socso_ER == <<"S","o","c","s","o"," ","E","R">>

H_SOC_ER == <<"S","O","C"," ","E","R">>

H_SOCqER == <<"S","O","C","'","E","R">>

H_SOCSOER == <<"S","O","C","S","O","E","R">>

H_Soc_qEE == <<"S","o","c"," ","'","E","E">>

(***************************************************************************)
(* Tables.  A table is [columns, data]: the headers in order and the rows, *)
(* each row the sequence of its cells in the order of the headers.         *)
(***************************************************************************)
Indices(q) == [i \in 1..Len(q) |-> i]

\* position of the first column called name, 0 when there is none
ColPos(columns, name) ==
    IF \E i \in 1..Len(columns) : columns[i] = name
    THEN CHOOSE i \in 1..Len(columns) :
             columns[i] = name /\ \A j \in 1..(i - 1) : columns[j] # name
    ELSE 0

HasCol(t, name) == ColPos(t.columns, name) # 0

RECURSIVE SumSeq(_)
SumSeq(q) == IF q = <<>> THEN 0 ELSE Head(q) + SumSeq(Tail(q))

\* df[name] as the sequence of its numbers, and df[name].sum()
Column(t, name) ==
    [r \in 1..Len(t.data) |-> t.data[r][ColPos(t.columns, name)].n]

ColumnSum(t, name) == SumSeq(Column(t, name))

\* df.get(name, 0) as one number per row
GetOrZero(t, name) ==
    IF HasCol(t, name) THEN Column(t, name) ELSE [r \in 1..Len(t.data) |-> 0]

\* df[name] = values: in place when the column exists, appended otherwise
SetColumn(t, name, values) ==
    LET p == ColPos(t.columns, name)
    IN  IF p # 0
        THEN [t EXCEPT !.data =
                 [r \in 1..Len(t.data) |-> [t.data[r] EXCEPT ![p] = Num(values[r])]]]
        ELSE [columns |-> Append(t.columns, name),
              data    |-> [r \in 1..Len(t.data) |->
                              Append(t.data[r], Num(values[r]))]]

(***************************************************************************)
(* Clean column names: back-ticks and typographic quotes are deleted, the  *)
(* header is stripped, columns whose cleaned name repeats an earlier one   *)
(* are dropped, and the three employee-side names are renamed.             *)
(***************************************************************************)
CleanHeader(h) ==
    strip(RemoveChar(RemoveChar(RemoveChar(h, "BTICK"), "RSQUO"), "LSQUO"))

RenameHeader(h) ==
    CASE h = H_EPFEE -> H_EPF
      [] h = H_SocEE -> H_Socso
      [] h = H_EISEE -> H_EIS
      [] OTHER       -> h

df_raw(ws) ==
    LET cleaned == [i \in 1..Len(ws.columns) |-> CleanHeader(ws.columns[i])]
        keep    == SelectSeq(Indices(cleaned),
                             LAMBDA i : \A j \in 1..(i - 1) : cleaned[j] # cleaned[i])
    IN  [columns |-> [k \in 1..Len(keep) |-> RenameHeader(cleaned[keep[k]])],
         data    |-> [r \in 1..Len(ws.data) |->
                         [k \in 1..Len(keep) |-> ws.data[r][keep[k]]]]]

(***************************************************************************)
(* Find the cost-center column.                                            *)
(***************************************************************************)
None == <<>>

acceptable == <<H_CCenter, H_CostCenter, H_Center, H_C_Center, H_CDashCenter>>

\* the inner loop: the first position from i on whose key is key, or 0
RECURSIVE FirstWithKey(_, _, _)
FirstWithKey(keys, key, i) ==
    IF i > Len(keys) THEN 0
    ELSE IF keys[i] = key THEN i
    ELSE FirstWithKey(keys, key, i + 1)

\* the outer loop over the targets, from target k on; keys are the
\* normalized headers
RECURSIVE MatchFromTarget(_, _, _)
MatchFromTarget(keys, targets, k) ==
    IF k > Len(targets) THEN 0
    ELSE LET i == FirstWithKey(keys, Norm(targets[k]), 1)
         IN  IF i # 0 THEN i ELSE MatchFromTarget(keys, targets, k + 1)

NormAll(columns) == [i \in 1..Len(columns) |-> Norm(columns[i])]

\* the loops the other way round: the first column that matches any spelling
RECURSIVE MatchColumnMajor(_, _)
MatchColumnMajor(columns, i) ==
    IF i > Len(columns) THEN None
    ELSE IF \E k \in 1..Len(acceptable) : Norm(columns[i]) = Norm(acceptable[k])
    THEN columns[i]
    ELSE MatchColumnMajor(columns, i + 1)

match_cost_center_column_by_column(columns) == MatchColumnMajor(columns, 1)

match_cost_center_column(columns) ==
    LET i == MatchFromTarget(NormAll(columns), acceptable, 1)
    IN  IF i = 0 THEN None ELSE columns[i]

(***************************************************************************)
(* sum_norm: the sum of the first column that matches a target.            *)
(***************************************************************************)
sum_norm(t, targets) ==
    LET i == MatchFromTarget(NormAll(t.columns), targets, 1)
    IN  IF i = 0 THEN 0 ELSE SumSeq([r \in 1..Len(t.data) |-> t.data[r][i].n])

EPF_ER_targets == <<H_EPF_ER, H_EPFqER, H_EPFER>>

EIS_ER_targets == <<H_EIS_ER, H_EISqER, H_EISER>>

Socso_ER_targets == <<H_Socso_ER, H_SOC_ER, H_SOCqER, H_SOCSOER, H_Soc_qEE>>

(***************************************************************************)
(* Department selection and the row filter.                                *)
(***************************************************************************)
RECURSIVE Unique(_)
Unique(q) ==
    IF q = <<>> THEN <<>>
    ELSE LET rest == Unique(SubSeq(q, 1, Len(q) - 1))
             x    == q[Len(q)]
         IN  IF x \in Range(rest) THEN rest ELSE Append(rest, x)

\* df_raw[cost_col].dropna().unique().tolist()
Depts(raw, cc) ==
    LET p == ColPos(raw.columns, cc)
    IN  Unique([k \in 1..Len(SelectSeq(raw.data, LAMBDA row : ~isna(row[p]))) |->
                   SelectSeq(raw.data, LAMBDA row : ~isna(row[p]))[k][p].s])

\* df_raw[df_raw[cost_col] == sel_dept]
SelectDept(raw, cc, dept) ==
    LET p == ColPos(raw.columns, cc)
    IN  [raw EXCEPT !.data =
            SelectSeq(raw.data, LAMBDA row : row[p].t = "str" /\ row[p].s = dept)]

\* df[name] = pd.to_datetime(df[name], errors="coerce")
ParseDateColumn(t, name) ==
    LET p == ColPos(t.columns, name)
    IN  [t EXCEPT !.data =
            [r \in 1..Len(t.data) |->
                [t.data[r] EXCEPT ![p] = to_datetime(t.data[r][p])]]]

ParseDates(t) == ParseDateColumn(ParseDateColumn(t, H_Joined), H_Resign)

\* a filter that keeps every row
KeepAll(t) == t

\* df[df["Resign"].isna()]
DropResigned(t) ==
    LET p == ColPos(t.columns, H_Resign)
    IN  [t EXCEPT !.data = SelectSeq(t.data, LAMBDA row : isna(row[p]))]

(***************************************************************************)
(* Numeric conversion and the payroll summary.                             *)
(***************************************************************************)
Ignore(cc) == {H_Name, H_EmpNo, cc, H_Joined, H_Resign}

NumericConversion(t, cc) ==
    [t EXCEPT !.data =
        [r \in 1..Len(t.data) |->
            [j \in 1..Len(t.columns) |->
                IF t.columns[j] \in Ignore(cc) THEN t.data[r][j]
                ELSE to_numeric(t.data[r][j])]]]

GrossPayColumnsNoBOT ==
    <<H_MBasic, H_OT, H_MEC, H_ALL, H_OVT, H_MS, H_NS, H_ICP,
      H_BAC, H_BSC, H_BBB, H_BAL, H_CSN>>

GrossPayColumns ==
    <<H_MBasic, H_OT, H_MEC, H_ALL, H_OVT, H_MS, H_NS, H_ICP,
      H_BAC, H_BSC, H_BBB, H_BAL, H_BOT, H_CSN>>

DeductionColumns == <<H_EPF, H_Socso, H_EIS, H_PCB>>

\* the row-wise sum of df.get(c, 0) over the columns cs
RowSums(t, cs) ==
    [r \in 1..Len(t.data) |->
        SumSeq([k \in 1..Len(cs) |-> GetOrZero(t, cs[k])[r]])]

PayrollSummary(t) ==
    LET t1 == SetColumn(t, H_GrossPay, RowSums(t, GrossPayColumns))
        t2 == SetColumn(t1, H_EPF, GetOrZero(t1, H_EPF))
        t3 == SetColumn(t2, H_Socso, GetOrZero(t2, H_Socso))
        t4 == SetColumn(t3, H_EIS, GetOrZero(t3, H_EIS))
        t5 == SetColumn(t4, H_PCB, GetOrZero(t4, H_PCB))
        t6 == SetColumn(t5, H_TotalDeduction, RowSums(t5, DeductionColumns))
    IN  SetColumn(t6, H_NetPay,
                  [r \in 1..Len(t6.data) |->
                      Column(t6, H_GrossPay)[r] - Column(t6, H_TotalDeduction)[r]])

(***************************************************************************)
(* Formatting and re-parsing of amounts.                                   *)
(***************************************************************************)
RECURSIVE DigitsOf(_)
DigitsOf(v) ==
    IF v < 10 THEN <<DigitChars[v + 1]>>
    ELSE Append(DigitsOf(v \div 10), DigitChars[(v % 10) + 1])

RECURSIVE Thousands(_)
Thousands(ds) ==
    IF Len(ds) <= 3 THEN ds
    ELSE Thousands(SubSeq(ds, 1, Len(ds) - 3)) \o <<",">>
         \o SubSeq(ds, Len(ds) - 2, Len(ds))

\* f"{x:,.2f}" of an amount of c cents
Fmt2(c) ==
    LET a == IF c < 0 THEN -c ELSE c
    IN  (IF c < 0 THEN <<"-">> ELSE <<>>)
        \o Thousands(DigitsOf(a \div 100))
        \o <<".", DigitChars[((a % 100) \div 10) + 1], DigitChars[(a % 10) + 1]>>

\* the two decimals f"{x:,.2f}" keeps of an amount of v/100 cents; a value
\* that lies halfway goes the way its binary floating-point image lies
RoundCents(v, up) ==
    LET q == v \div 100
        r == v % 100
    IN  IF r > 50 \/ (r = 50 /\ up) THEN q + 1 ELSE q

RECURSIVE DigitsToNat(_)
DigitsToNat(ds) ==
    IF ds = <<>> THEN 0
    ELSE 10 * DigitsToNat(SubSeq(ds, 1, Len(ds) - 1)) + DigitVal(ds[Len(ds)])

\* float(x) of a text with two decimals, in cents; ok is false where float
\* raises ValueError
ParseFloat(x) ==
    LET neg  == x # <<>> /\ Head(x) = "-"
        body == IF neg THEN Tail(x) ELSE x
        L    == Len(body)
    IN  IF /\ L >= 4
           /\ body[L - 2] = "."
           /\ \A i \in (1..L) \ {L - 2} : IsDigit(body[i])
        THEN LET v == 100 * DigitsToNat(SubSeq(body, 1, L - 3))
                      + DigitsToNat(SubSeq(body, L - 1, L))
             IN  [ok |-> TRUE, v |-> IF neg THEN -v ELSE v]
        ELSE [ok |-> FALSE, v |-> 0]

\* float(x.replace(",", ""))
AmountValue(x) == ParseFloat(RemoveChar(x, ","))

(***************************************************************************)
(* The Generate Invoice handler.                                           *)
(***************************************************************************)
insurance_fee == 50 * 100

mgmt_rate == 15

sst_rate == 8

NoInvoice ==
    [status |-> "none", exc |-> "none", computed |-> FALSE, n |-> 0,
     gross_sum |-> 0, overtime_total |-> 0, epf_er |-> 0, eis_er |-> 0,
     socso_er |-> 0, emp_stat |-> 0, hrdf_amt |-> 0, wages |-> 0,
     mgmt_fee |-> 0, items |-> <<>>, total_excl_sst |-> 0, sst_amount |-> 0,
     total_incl_sst |-> 0, shown |-> <<>>, word |-> FALSE, pdf |-> FALSE]

Item(no, desc, qty, price, amount) ==
    [No |-> no, Description |-> desc, Qty |-> qty, UPrice |-> price,
     Amount |-> amount]

\* the lines with the Insurance Claim amount not multiplied by the headcount
ItemsFlatInsurance(n, wages, overtime_total, emp_stat, hrdf_amt, mgmt_cents) ==
    << Item(1, "Wages", 1, Fmt2(wages), Fmt2(wages)),
       Item(2, "Overtime", 1, Fmt2(overtime_total), Fmt2(overtime_total)),
       Item(3, "Employer Statutory (EPF+Socso+EIS)", 1, Fmt2(emp_stat),
            Fmt2(emp_stat)),
       Item(4, "HRDF", 1, Fmt2(hrdf_amt), Fmt2(hrdf_amt)),
       Item(5, "Medical Fee (Excl. Mgmt Fee)", 1, <<>>, <<>>),
       Item(6, "Insurance Claim (Excl. Mgmt Fee)", n, Fmt2(insurance_fee),
            Fmt2(insurance_fee)),
       Item(7, "15% Management Fee", 1, Fmt2(mgmt_cents), Fmt2(mgmt_cents)) >>

Items(n, wages, overtime_total, emp_stat, hrdf_amt, mgmt_cents) ==
    << Item(1, "Wages", 1, Fmt2(wages), Fmt2(wages)),
       Item(2, "Overtime", 1, Fmt2(overtime_total), Fmt2(overtime_total)),
       Item(3, "Employer Statutory (EPF+Socso+EIS)", 1, Fmt2(emp_stat),
            Fmt2(emp_stat)),
       Item(4, "HRDF", 1, Fmt2(hrdf_amt), Fmt2(hrdf_amt)),
       Item(5, "Medical Fee (Excl. Mgmt Fee)", 1, <<>>, <<>>),
       Item(6, "Insurance Claim (Excl. Mgmt Fee)", n, Fmt2(insurance_fee),
            Fmt2(insurance_fee * n)),
       Item(7, "15% Management Fee", 1, Fmt2(mgmt_cents), Fmt2(mgmt_cents)) >>

\* the amounts "if x" lets through
NumericAmounts(items) ==
    SelectSeq([i \in 1..Len(items) |-> items[i].Amount], LAMBDA x : x # <<>>)

\* total_excl_sst * sst_rate, in 1/100 of a cent
SstAmountOldRate(total) == total * 6

SstAmount(total) == total * sst_rate

\* total_excl_sst + sst_amount, in 1/100 of a cent
TotalInclSst(total, sst) == 100 * total + sst

\* except Exception
CatchesKeyErrorOnly(e) == e = "KeyError"

Catches(e) ==
    e \in {"KeyError", "AttributeError", "ValueError", "UnicodeEncodeError"}

Raise(inv, e) ==
    [inv EXCEPT !.exc = e, !.status = IF Catches(e) THEN "error" ELSE "crash"]

\* the body of the try block on the department table t; up settles a
\* management fee that lies halfway between two cents
InvoiceOutcome(t, dept, up) ==
    IF ~HasCol(t, H_OT) \/ ~HasCol(t, H_BOT) THEN Raise(NoInvoice, "KeyError")
    ELSE IF ~HasCol(t, H_HRDF) THEN Raise(NoInvoice, "AttributeError")
    ELSE
    LET n              == Len(t.data)
        gross_sum      == ColumnSum(t, H_GrossPay)
        overtime_total == ColumnSum(t, H_OT) + ColumnSum(t, H_BOT)
        epf_er         == sum_norm(t, EPF_ER_targets)
        eis_er         == sum_norm(t, EIS_ER_targets)
        socso_er       == sum_norm(t, Socso_ER_targets)
        emp_stat       == epf_er + socso_er + eis_er
        hrdf_amt       == ColumnSum(t, H_HRDF)
        wages          == gross_sum - overtime_total
        mgmt_base      == wages + overtime_total + emp_stat + hrdf_amt
        mgmt_fee       == mgmt_rate * mgmt_base
        items          == Items(n, wages, overtime_total, emp_stat, hrdf_amt,
                                RoundCents(mgmt_fee, up))
        amounts        == NumericAmounts(items)
        figures        == [NoInvoice EXCEPT
                              !.n = n, !.gross_sum = gross_sum,
                              !.overtime_total = overtime_total,
                              !.epf_er = epf_er, !.eis_er = eis_er,
                              !.socso_er = socso_er, !.emp_stat = emp_stat,
                              !.hrdf_amt = hrdf_amt, !.wages = wages,
                              !.mgmt_fee = mgmt_fee, !.items = items]
    IN  IF \E i \in 1..Len(amounts) : ~AmountValue(amounts[i]).ok
        THEN Raise(figures, "ValueError")
        ELSE
        LET total_excl_sst == SumSeq([i \in 1..Len(amounts) |->
                                         AmountValue(amounts[i]).v])
            sst_amount     == SstAmount(total_excl_sst)
            total_incl_sst == TotalInclSst(total_excl_sst, sst_amount)
            computed       == [figures EXCEPT
                                  !.computed = TRUE,
                                  !.total_excl_sst = total_excl_sst,
                                  !.sst_amount = sst_amount,
                                  !.total_incl_sst = total_incl_sst,
                                  !.shown = << Fmt2(total_excl_sst),
                                               Fmt2(RoundCents(sst_amount, FALSE)),
                                               Fmt2(RoundCents(total_incl_sst, FALSE)) >>]
        IN  IF ~IsLatin1(dept)
            THEN Raise([computed EXCEPT !.word = TRUE], "UnicodeEncodeError")
            ELSE [computed EXCEPT !.word = TRUE, !.pdf = TRUE, !.status = "ok"]

(***************************************************************************)
(* Login gating.                                                           *)
(***************************************************************************)
VALID_USERS == [u \in {"alice", "bob"} |->
                   IF u = "alice" THEN "wonderland123" ELSE "builder456"]

\* VALID_USERS.get(username) == password, with any known password accepted
AnyKnownPassword(username, password) == password \in Range(VALID_USERS)

\* VALID_USERS.get(username) == password
ValidLogin(username, password) ==
    username \in DOMAIN VALID_USERS /\ VALID_USERS[username] = password

(***************************************************************************)
(* The script from the file uploader down, for the workbook wb, the sheet  *)
(* at position i and the department the selectbox holds (None when it has  *)
(* no choice yet and shows its first option).                              *)
(***************************************************************************)
EmptyTable == [columns |-> <<>>, data |-> <<>>]

Halted(st, msgs) ==
    [stage |-> st, cost_col |-> None, depts |-> <<>>, sel_dept |-> None,
     df |-> EmptyTable, messages |-> msgs]

Script(wb, i, choice) ==
    LET raw == df_raw(wb[i])
        cc  == match_cost_center_column(raw.columns)
    IN  IF cc = None
        THEN Halted("halted", <<"Cost Center column not found.">>)
        ELSE
        LET ds   == Depts(raw, cc)
            dept == IF choice \in Range(ds) THEN choice ELSE ds[1]
        IN  IF ~HasCol(raw, H_Joined) \/ ~HasCol(raw, H_Resign)
            THEN [Halted("exception", <<"KeyError">>) EXCEPT
                     !.cost_col = cc, !.depts = ds, !.sel_dept = dept]
            ELSE [stage    |-> "summary",
                  cost_col |-> cc,
                  depts    |-> ds,
                  sel_dept |-> dept,
                  df       |-> PayrollSummary(NumericConversion(
                                   DropResigned(ParseDates(SelectDept(raw, cc, dept))),
                                   cc)),
                  messages |-> <<>>]

(***************************************************************************)
(* Input families: the workbooks a session uploads.  An employee is a      *)
(* department, a Resign cell and a pay scale; the pay cell of a column is  *)
(* the scale times the amount the column has in PayOf.                     *)
(***************************************************************************)
D_HQ == <<"H","Q">>

D_OPS == <<"O","P","S">>

D_CJK == <<"R","CJK","D">>

T_Date == <<"2","0","2","4","-","0","1","-","0","1">>

T_NotADate == <<"n","/","a">>

T_BadMonth == <<"2","0","2","4","-","1","3","-","0","1">>

H_Dept == <<"D","e","p","t">>

H_cost_center == <<"c","o","s","t","_","c","e","n","t","e","r">>

H_CENTER_sp == <<" ","C","E","N","T","E","R"," ","2"," ">>

H_epf_er == <<"e","p","f"," ","e","r">>

H_EPF_EE == <<"E","P","F"," ","E","E">>

H_EPFrqER == <<"E","P","F","RSQUO","E","R">>

H_eis_er_1 == <<"e","i","s","-","e","r"," ","1">>

H_MBasic_bt == <<"BTICK","M","/","B","a","s","i","c"," ">>

Employee(name, dept, resign, scale, basic_text) ==
    [name |-> name, dept |-> dept, resign |-> resign, scale |-> scale,
     basic_text |-> basic_text]

E_Ali == Employee(<<"A">>, D_HQ, NaN, 1, FALSE)

E_Bala == Employee(<<"B">>, D_HQ, Str(T_Date), 1, FALSE)

E_Chen == Employee(<<"C">>, D_HQ, Str(T_NotADate), 2, FALSE)

E_Dewi == Employee(<<"D">>, D_OPS, NaN, 2, TRUE)

E_Eng == Employee(<<"E">>, D_CJK, Str(T_BadMonth), 1, FALSE)

E_Zero == Employee(<<"Z">>, D_HQ, NaN, 0, FALSE)

PayOf(h) ==
    CASE h = H_MBasic -> 300000  [] h = H_MBasic_bt -> 300000
      [] h = H_OT -> 20000       [] h = H_MEC -> 1500
      [] h = H_ALL -> 2500       [] h = H_OVT -> 3500
      [] h = H_MS -> 4100        [] h = H_NS -> 4300
      [] h = H_ICP -> 4700       [] h = H_BAC -> 5300
      [] h = H_BSC -> 5900       [] h = H_BBB -> 6100
      [] h = H_BAL -> 6700       [] h = H_BOT -> 7100
      [] h = H_CSN -> 7300       [] h = H_EPF -> 33000
      [] h = H_EPFEE -> 33000    [] h = H_Socso -> 5250
      [] h = H_EIS -> 1050       [] h = H_PCB -> 12000
      [] h = H_HRDF -> 3010      [] h = H_EPF_ER -> 39000
      [] h = H_epf_er -> 39100   [] h = H_EPFER -> 39200
      [] h = H_EPFrqER -> 39300  [] h = H_EPF_EE -> 33100
      [] h = H_eis_er_1 -> 1060  [] h = H_SOC_ER -> 9150
      [] h = H_Socso_ER -> 9250  [] h = H_Soc_qEE -> 5260
      [] OTHER -> 0

CostCenterPool ==
    <<H_CCenter, H_CostCenter, H_Center, H_C_Center, H_CDashCenter,
      H_cost_center, H_CENTER_sp, H_Dept>>

\* the cell of employee e, at row k of the sheet, under the header h
CellOf(h, e, k) ==
    IF h = H_No THEN Num(k)
    ELSE IF h = H_Name THEN Str(e.name)
    ELSE IF h \in Range(CostCenterPool) THEN Str(e.dept)
    ELSE IF h = H_Joined THEN Str(T_Date)
    ELSE IF h = H_Resign THEN e.resign
    ELSE IF e.basic_text /\ h = H_MBasic THEN Str(T_NotADate)
    ELSE Num(e.scale * PayOf(h))

Worksheet(columns, staff) ==
    [columns |-> columns,
     data    |-> [k \in 1..Len(staff) |->
                     [j \in 1..Len(columns) |-> CellOf(columns[j], staff[k], k)]]]

\* the non-empty sequences over the elements of pool, at most m long
SeqsUpTo(pool, m) == UNION {[1..k -> Range(pool)] : k \in 1..m}

\* the sequences of at most m distinct elements of pool, the empty one too
DistinctSeqs(pool, m) ==
    {<<>>} \cup {q \in SeqsUpTo(pool, m) :
                    \A a, b \in 1..Len(q) : a # b => q[a] # q[b]}

\* the subsequences of pool (pool order kept) of at most m elements
SubSeqs(pool, m) ==
    {SelectSeq(pool, LAMBDA h : h \in S) :
        S \in {S \in SUBSET Range(pool) : Cardinality(S) <= m}}

BaseColumns == <<H_No, H_Name, H_CCenter, H_Joined, H_Resign>>

PayrollPool ==
    <<H_MBasic, H_OT, H_MEC, H_ALL, H_OVT, H_MS, H_NS, H_ICP, H_BAC, H_BSC,
      H_BBB, H_BAL, H_BOT, H_CSN, H_EPF, H_Socso, H_EIS, H_PCB, H_EPFEE>>

InvoicePool == <<H_OT, H_BOT, H_HRDF>>

AliasPool ==
    <<H_EPF_ER, H_epf_er, H_EPFER, H_EPF_EE, H_eis_er_1, H_SOC_ER,
      H_Socso_ER, H_Soc_qEE>>

PayrollSheets ==
    {Worksheet(BaseColumns \o cs, staff) :
        cs \in {c \in SubSeqs(PayrollPool, MaxOptCols) :
                   ~(H_EPF \in Range(c) /\ H_EPFEE \in Range(c))},
        staff \in {<<E_Ali, E_Dewi, E_Ali>>}}

InvoiceSheets ==
    {Worksheet(BaseColumns \o <<H_MBasic>> \o cs, staff) :
        cs \in SubSeqs(InvoicePool, Len(InvoicePool)),
        staff \in SeqsUpTo(<<E_Ali, E_Bala, E_Chen, E_Eng>>, MaxRows)}

AliasSheets ==
    {Worksheet(BaseColumns \o <<H_MBasic, H_OT, H_BOT, H_HRDF>> \o cs, staff) :
        cs \in DistinctSeqs(AliasPool, MaxAliasCols),
        staff \in {<<E_Ali, E_Ali>>, <<E_Zero>>}}

CostCenterSheets ==
    {Worksheet(<<H_No, H_Name>> \o cs
               \o <<H_Joined, H_Resign, H_MBasic, H_OT, H_BOT, H_HRDF>>, staff) :
        cs \in DistinctSeqs(CostCenterPool, MaxAliasCols),
        staff \in {<<E_Dewi, E_Ali>>}}

\* one employee with Basic 3000, OT 200, EPF 300, Socso 50, EIS 10, PCB 0
ScenarioSheet ==
    [columns |-> BaseColumns \o <<H_MBasic, H_OT, H_EPF, H_Socso, H_EIS, H_PCB>>,
     data    |-> << <<Num(1), Str(<<"S">>), Str(D_HQ), Str(T_Date), NaN,
                      Num(300000), Num(20000), Num(30000), Num(5000),
                      Num(1000), Num(0)>> >>]

\* headers that need cleaning, and a header that repeats after cleaning
UncleanSheet ==
    Worksheet(BaseColumns \o <<H_MBasic_bt, H_MBasic, H_OT, H_BOT, H_HRDF,
                               H_EPFrqER>>, <<E_Ali, E_Dewi>>)

NoResignSheet ==
    Worksheet(<<H_No, H_Name, H_CCenter, H_Joined, H_MBasic>>, <<E_Ali>>)

Workbooks ==
    {<<ws>> : ws \in PayrollSheets \cup InvoiceSheets \cup AliasSheets
                     \cup CostCenterSheets
                     \cup {ScenarioSheet, UncleanSheet, NoResignSheet}}
    \cup {<<ScenarioSheet, UncleanSheet>>, <<NoResignSheet, ScenarioSheet>>}

Usernames == {"alice", "bob", "eve", ""}

Passwords == {"wonderland123", "builder456", "letmein", ""}

(***************************************************************************)
(* The session.                                                            *)
(***************************************************************************)
NoAttempt == [username |-> "", password |-> "", submitted |-> FALSE]

Init ==
    /\ logged_in = FALSE
    /\ login_attempt = NoAttempt
    /\ uploaded_file = None
    /\ sheet = 0
    /\ stage = "login"
    /\ cost_col = None
    /\ depts = <<>>
    /\ sel_dept = None
    /\ df = EmptyTable
    /\ invoice = NoInvoice
    /\ messages = <<>>

\* a run of the script below the login gate
Rerun(wb, i, choice) ==
    \E out \in {Script(wb, i, choice)} :
        /\ stage' = out.stage
        /\ cost_col' = out.cost_col
        /\ depts' = out.depts
        /\ sel_dept' = out.sel_dept
        /\ df' = out.df
        /\ messages' = out.messages
        /\ invoice' = NoInvoice
        /\ login_attempt' = NoAttempt

\* the login form is submitted
SubmitLogin(username, password) ==
    /\ ~logged_in
    /\ login_attempt' = [username |-> username, password |-> password,
                         submitted |-> TRUE]
    /\ IF ValidLogin(username, password)
       THEN /\ logged_in' = TRUE
            /\ stage' = "upload"
            /\ messages' = <<>>
       ELSE /\ logged_in' = logged_in
            /\ stage' = "login"
            /\ messages' = <<"Incorrect username or password">>
    /\ UNCHANGED <<uploaded_file, sheet, cost_col, depts, sel_dept, df, invoice>>

\* a workbook is uploaded; the sheet selectbox shows its first sheet
UploadFile ==
    /\ logged_in
    /\ uploaded_file = None
    /\ \E wb \in Workbooks :
           /\ uploaded_file' = wb
           /\ sheet' = 1
           /\ Rerun(wb, 1, None)
    /\ UNCHANGED logged_in

\* the uploaded file is removed from the uploader
RemoveFile ==
    /\ logged_in
    /\ uploaded_file # None
    /\ uploaded_file' = None
    /\ sheet' = 0
    /\ stage' = "upload"
    /\ cost_col' = None
    /\ depts' = <<>>
    /\ sel_dept' = None
    /\ df' = EmptyTable
    /\ invoice' = NoInvoice
    /\ messages' = <<>>
    /\ login_attempt' = NoAttempt
    /\ UNCHANGED logged_in

\* another sheet of the workbook is selected
SelectSheet(i) ==
    /\ logged_in
    /\ uploaded_file # None
    /\ i \in 1..Len(uploaded_file)
    /\ i # sheet
    /\ sheet' = i
    /\ Rerun(uploaded_file, i, None)
    /\ UNCHANGED <<logged_in, uploaded_file>>

\* another department is selected
SelectDepartment(dept) ==
    /\ logged_in
    /\ stage = "summary"
    /\ dept # sel_dept
    /\ dept \in Range(depts)
    /\ Rerun(uploaded_file, sheet, dept)
    /\ UNCHANGED <<logged_in, uploaded_file, sheet>>

\* the Generate Invoice button is pressed: the script runs again on the same
\* file and selections, which gives the same department table, and then the
\* handler runs on it
GenerateInvoice ==
    /\ logged_in
    /\ stage = "summary"
    /\ \E up \in BOOLEAN :
       \E result \in {InvoiceOutcome(df, sel_dept, up)} :
           /\ invoice' = result
           /\ messages' = IF result.status = "error"
                          THEN <<"Something went wrong">>
                          ELSE IF result.status = "crash"
                          THEN <<"Traceback">>
                          ELSE <<>>
    /\ login_attempt' = NoAttempt
    /\ UNCHANGED <<logged_in, uploaded_file, sheet, stage, cost_col, depts,
                   sel_dept, df>>

Next ==
    \/ \E u \in Usernames, p \in Passwords : SubmitLogin(u, p)
    \/ UploadFile
    \/ RemoveFile
    \/ \E i \in 1..2 : SelectSheet(i)
    \/ \E d \in {D_HQ, D_OPS, D_CJK} : SelectDepartment(d)
    \/ GenerateInvoice

Spec == Init /\ [][Next]_vars

(***************************************************************************)
(* Vocabulary of the properties.                                           *)
(***************************************************************************)
\* the sheet the session works on, after the cleaning of its headers
CurrentRaw == df_raw(uploaded_file[sheet])

\* lowercased, every character that is not an ASCII letter deleted
NormalForm(s) ==
    lower(SelectSeq(s, LAMBDA c : IsLowerAz(c) \/ IsUpperAz(c)))

\* the number a raw cell stands for
Amount(c) == IF c.t = "num" THEN c.n ELSE 0

\* the number under header h in a raw row, 0 when the sheet has no such column
RawAmount(raw, row, h) ==
    IF \E j \in 1..Len(raw.columns) : raw.columns[j] = h
    THEN Amount(row[ColPos(raw.columns, h)])
    ELSE 0

\* the "No." of each row: the position of the row in the uploaded sheet
RowIds(t) == [r \in 1..Len(t.data) |-> t.data[r][ColPos(t.columns, H_No)].n]

CellAt(t, r, h) == t.data[r][ColPos(t.columns, h)]

EarningColumns ==
    <<H_MBasic, H_OT, H_MEC, H_ALL, H_OVT, H_MS, H_NS, H_ICP, H_BAC, H_BSC,
      H_BBB, H_BAL, H_BOT, H_CSN>>

StatutoryDeductions == <<H_EPF, H_Socso, H_EIS, H_PCB>>

RawTotal(raw, row, hs) ==
    SumSeq([k \in 1..Len(hs) |-> RawAmount(raw, row, hs[k])])

NormalForms(columns) == [i \in 1..Len(columns) |-> NormalForm(columns[i])]

\* the positions of the headers, given by their normal forms, that match
\* the spelling
MatchesOf(forms, spelling) ==
    LET f == NormalForm(spelling) IN {i \in 1..Len(forms) : forms[i] = f}

AnyMatch(forms, spellings) ==
    \E k \in 1..Len(spellings) : MatchesOf(forms, spellings[k]) # {}

Min(S) == CHOOSE x \in S : \A y \in S : x <= y

\* the first header that matches the earliest spelling that has a match
PriorityMatch(forms, spellings) ==
    LET k == Min({j \in 1..Len(spellings) : MatchesOf(forms, spellings[j]) # {}})
    IN  Min(MatchesOf(forms, spellings[k]))

Cents(x) == ParseFloat(RemoveChar(x, ",")).v

Abs(v) == IF v < 0 THEN -v ELSE v

\* C1: every row of the department table has Gross Pay = the sum of the
\* earning components the sheet has (an absent column counts as zero), Total
\* Deduction = EPF + Socso + EIS + PCB (absent counts as zero) and Net Pay =
\* Gross Pay - Total Deduction.
C1_PayrollTotals ==
    stage = "summary" =>
        \A r \in 1..Len(df.data) :
            LET raw   == CurrentRaw
                row   == raw.data[RowIds(df)[r]]
                gross == RawTotal(raw, row, EarningColumns)
                ded   == RawTotal(raw, row, StatutoryDeductions)
            IN  /\ CellAt(df, r, H_GrossPay) = Num(gross)
                /\ CellAt(df, r, H_TotalDeduction) = Num(ded)
                /\ CellAt(df, r, H_NetPay) = Num(gross - ded)

\* the scenario of the specification: Basic 3000, OT 200, EPF 300, Socso 50,
\* EIS 10, PCB 0 in department HQ gives 3200, 360 and 2840
C1_Witness ==
    /\ stage = "summary"
    /\ uploaded_file[sheet] = ScenarioSheet
    /\ sel_dept = D_HQ
    /\ Len(df.data) = 1
    /\ CellAt(df, 1, H_GrossPay) = Num(320000)
    /\ CellAt(df, 1, H_TotalDeduction) = Num(36000)
    /\ CellAt(df, 1, H_NetPay) = Num(284000)
    /\ ~HasCol(df, H_BOT)

\* C2: when Generate Invoice runs on a sheet that lacks HRDF, "OT Amt 1 1/2"
\* or BOT, the computation completes without the error outcome and the value
\* of the missing column (hrdf, the overtime sum) is 0.
C2_MissingOptionalColumnsDefaultToZero ==
    (invoice.status # "none"
     /\ (~HasCol(df, H_HRDF) \/ ~HasCol(df, H_OT) \/ ~HasCol(df, H_BOT))) =>
        /\ invoice.computed
        /\ invoice.exc \notin {"KeyError", "AttributeError"}
        /\ ~HasCol(df, H_HRDF) => invoice.hrdf_amt = 0
        /\ (~HasCol(df, H_OT) /\ ~HasCol(df, H_BOT)) => invoice.overtime_total = 0

\* the raw rows of the selected department, by "No."
DeptRows ==
    LET raw == CurrentRaw
        p   == ColPos(raw.columns, cost_col)
    IN  SelectSeq(Indices(raw.data), LAMBDA k : raw.data[k][p] = Str(sel_dept))

\* the Resign cell of raw row k
RawResign(k) == CurrentRaw.data[k][ColPos(CurrentRaw.columns, H_Resign)]

\* whether a raw Resign cell holds a date
HoldsDate(c) ==
    \/ c.t \in {"date", "num"}
    \/ c.t = "str" /\ ParseDate(c.s) # NaN

\* C3 as stated: the department table is exactly the raw rows of the selected
\* department whose Resign value is empty; a row with any non-empty Resign
\* value, a date or not, is excluded.
C3_OnlyEmptyResignKept ==
    stage = "summary" =>
        RowIds(df) = SelectSeq(DeptRows, LAMBDA k : RawResign(k) = NaN)

\* C3 amended: the department table is exactly the raw rows of the selected
\* department whose Resign value is empty or does not parse as a date; a row
\* whose Resign value is a date is excluded, a row whose Resign value is
\* non-empty and unparseable is kept.
C3_NoResignDateKept ==
    stage = "summary" =>
        RowIds(df) = SelectSeq(DeptRows, LAMBDA k : ~HoldsDate(RawResign(k)))

\* a department with a row of unparseable Resign kept and a dated row dropped
C3_Witness ==
    /\ stage = "summary"
    /\ \E r \in 1..Len(df.data) : RawResign(RowIds(df)[r]) = Str(T_NotADate)
    /\ \E k \in Range(DeptRows) : RawResign(k) = Str(T_Date)

AliasGroups ==
    << [targets |-> EPF_ER_targets, result |-> invoice.epf_er],
       [targets |-> EIS_ER_targets, result |-> invoice.eis_er],
       [targets |-> Socso_ER_targets, result |-> invoice.socso_er] >>

SumOfColumn(t, i) == SumSeq([r \in 1..Len(t.data) |-> t.data[r][i].n])

\* C4 as stated: sum_norm returns the sum of a column whose normal form is
\* that of some target, and returns 0 exactly when no header matches.
C4_ZeroExactlyWhenNoMatch ==
    invoice.items # <<>> =>
        \A g \in 1..Len(AliasGroups) :
            LET G     == AliasGroups[g]
                forms == NormalForms(df.columns)
            IN  /\ AnyMatch(forms, G.targets) =>
                       G.result = SumOfColumn(df, PriorityMatch(forms, G.targets))
                /\ G.result = 0 <=> ~AnyMatch(forms, G.targets)

\* C4 amended: sum_norm returns the sum of the first column that matches the
\* earliest target with a match, and 0 when no header matches (a matching
\* column may itself sum to 0); so headers that differ only in case, spaces,
\* digits or punctuation give the same result.
C4_FirstMatchSumOrZero ==
    invoice.items # <<>> =>
        \A g \in 1..Len(AliasGroups) :
            LET G     == AliasGroups[g]
                forms == NormalForms(df.columns)
            IN  IF AnyMatch(forms, G.targets)
                THEN G.result = SumOfColumn(df, PriorityMatch(forms, G.targets))
                ELSE G.result = 0

\* the header "epf er", which is none of the literal targets, is summed
C4_Witness ==
    /\ invoice.items # <<>>
    /\ HasCol(df, H_epf_er)
    /\ ~HasCol(df, H_EPF_ER) /\ ~HasCol(df, H_EPFER)
    /\ invoice.epf_er = ColumnSum(df, H_epf_er)
    /\ invoice.epf_er > 0

Spellings == <<H_CCenter, H_CostCenter, H_Center, H_C_Center, H_CDashCenter>>

\* C5: the cost-center column is the first header that matches the earliest
\* of the spellings C/Center, Cost Center, Center, C Center, C-Center that has
\* a match; there is none exactly when no header matches any spelling, and
\* then the run halts with "Cost Center column not found." with no department
\* selected and no payroll or invoice computed.
C5_CostCenterResolution ==
    uploaded_file # None =>
        LET columns == CurrentRaw.columns
            forms   == NormalForms(columns)
        IN  IF AnyMatch(forms, Spellings)
            THEN /\ stage # "halted"
                 /\ cost_col = columns[PriorityMatch(forms, Spellings)]
            ELSE /\ stage = "halted"
                 /\ messages = <<"Cost Center column not found.">>
                 /\ cost_col = None /\ depts = <<>> /\ sel_dept = None
                 /\ df = EmptyTable /\ invoice = NoInvoice
                 /\ ~ENABLED GenerateInvoice
                 /\ \A d \in {D_HQ, D_OPS, D_CJK} : ~ENABLED SelectDepartment(d)

\* "Center" stands before "C/Center" in the sheet and "C/Center" is chosen
C5_Witness ==
    /\ stage = "summary"
    /\ HasCol(CurrentRaw, H_Center) /\ HasCol(CurrentRaw, H_CCenter)
    /\ ColPos(CurrentRaw.columns, H_Center) < ColPos(CurrentRaw.columns, H_CCenter)
    /\ cost_col = H_CCenter

\* the sum of a column of the department table, 0 when it is absent
SumOrZero(h) == IF HasCol(df, h) THEN ColumnSum(df, h) ELSE 0

\* C6: for any department table of n rows the Invoice Calculator gives
\* overtime = sum(OT Amt 1 1/2) + sum(BOT), wages = sum(Gross Pay) - overtime,
\* an Insurance Claim amount of n x 50 and a Management Fee of
\* 0.15 x (wages + overtime + employer statutory + hrdf).
C6_InvoiceFigures ==
    invoice.status # "none" =>
        /\ invoice.items # <<>>
        /\ invoice.n = Len(df.data)
        /\ invoice.overtime_total = SumOrZero(H_OT) + SumOrZero(H_BOT)
        /\ invoice.wages = ColumnSum(df, H_GrossPay) - invoice.overtime_total
        /\ Cents(invoice.items[6].Amount) = invoice.n * 5000
        /\ invoice.mgmt_fee = 15 * (invoice.wages + invoice.overtime_total
                                    + invoice.emp_stat + invoice.hrdf_amt)

LineHolds(item) ==
    Cents(item.Amount) = item.Qty * Cents(item.UPrice)

IsPlaceholder(item) == item.UPrice = <<>> /\ item.Amount = <<>>

LineTotal(items, lines) ==
    SumSeq([k \in 1..Len(lines) |-> Cents(items[lines[k]].Amount)])

\* C7 as stated: Amount = Qty x Unit Price on every line but the Medical Fee
\* and Insurance Claim lines, which carry no computed value and add nothing
\* to total_excl_tax.
C7_TwoPlaceholderLines ==
    invoice.computed =>
        /\ \A i \in {1, 2, 3, 4, 7} : LineHolds(invoice.items[i])
        /\ IsPlaceholder(invoice.items[5]) /\ IsPlaceholder(invoice.items[6])
        /\ invoice.total_excl_sst = LineTotal(invoice.items, <<1, 2, 3, 4, 7>>)

\* C7 amended: Amount = Qty x Unit Price on every line but the Medical Fee
\* line, the only placeholder; the Insurance Claim line is n x 50 and counts
\* in total_excl_tax, the sum of the six numeric amounts.
C7_OnePlaceholderLine ==
    invoice.computed =>
        /\ Len(invoice.items) = 7
        /\ \A i \in {1, 2, 3, 4, 6, 7} : LineHolds(invoice.items[i])
        /\ IsPlaceholder(invoice.items[5])
        /\ invoice.items[6].Qty = Len(df.data)
        /\ Cents(invoice.items[6].UPrice) = 5000
        /\ invoice.total_excl_sst = LineTotal(invoice.items, <<1, 2, 3, 4, 6, 7>>)

C7_Witness ==
    /\ invoice.computed
    /\ invoice.n >= 2
    /\ Cents(invoice.items[6].Amount) = invoice.n * 5000
    /\ invoice.total_excl_sst > Cents(invoice.items[6].Amount)

\* C8: tax_amount = 0.08 x total_excl_tax and total_incl_tax =
\* total_excl_tax + tax_amount, that is 1.08 x total_excl_tax; the figures
\* shown with two decimals are within half a cent of them.  Amounts in 1/100
\* of a cent, total_excl_tax in cents.
C8_Tax ==
    (invoice.computed /\ invoice.total_excl_sst >= 0) =>
        /\ invoice.sst_amount = 8 * invoice.total_excl_sst
        /\ invoice.total_incl_sst = 100 * invoice.total_excl_sst + invoice.sst_amount
        /\ invoice.total_incl_sst = 108 * invoice.total_excl_sst
        /\ Cents(invoice.shown[1]) = invoice.total_excl_sst
        /\ Abs(100 * Cents(invoice.shown[2]) - 8 * invoice.total_excl_sst) <= 50
        /\ Abs(100 * Cents(invoice.shown[3]) - 108 * invoice.total_excl_sst) <= 50

\* a total whose tax is not a whole number of cents
C8_Witness ==
    /\ invoice.computed
    /\ invoice.total_excl_sst > 0
    /\ invoice.sst_amount % 100 # 0

\* C9: a failure of the Generate Invoice action, in the computation or in the
\* rendering, is caught and shown as one error message; the login flag, the
\* file, the sheet and department selections and the payroll table are as
\* before, and Generate Invoice can be pressed again (the session is logged
\* in and at the summary stage, which is all that GenerateInvoice asks for).
C9_InvoiceFailureNonFatal ==
    /\ [](invoice.exc # "none" =>
              /\ invoice.status = "error"
              /\ messages = <<"Something went wrong">>
              /\ logged_in /\ stage = "summary")
    /\ [][invoice'.exc # "none" =>
              UNCHANGED <<logged_in, uploaded_file, sheet, stage, cost_col,
                          depts, sel_dept, df>>]_vars

\* the Word document was rendered and the PDF failed
C9_Witness ==
    /\ invoice.status = "error"
    /\ invoice.exc = "UnicodeEncodeError"
    /\ invoice.computed /\ invoice.word /\ ~invoice.pdf

\* C10: logged_in starts false, nothing below the login gate is reached
\* while it is false, it becomes true only on a submission of a user of the
\* allow-list with that user's password, and it never becomes false again.
C10_LoginGate ==
    /\ ~logged_in
    /\ [](~logged_in =>
              /\ stage = "login"
              /\ uploaded_file = None /\ sheet = 0 /\ sel_dept = None
              /\ df = EmptyTable /\ invoice = NoInvoice)
    /\ [][/\ logged_in => logged_in'
          /\ (~logged_in /\ logged_in') =>
                 /\ login_attempt'.submitted
                 /\ login_attempt'.username \in DOMAIN VALID_USERS
                 /\ login_attempt'.password = VALID_USERS[login_attempt'.username]]_vars

\* the state right after a successful login
C10_Witness ==
    /\ logged_in
    /\ login_attempt.submitted
    /\ stage = "upload"

====
